---- MODULE Spec2Model ----
(***************************************************************************)
(* Model of html5streams: the tree event adapter (ParseTraverser,          *)
(* src/src/traverser.rs) and the stream stages of src/src/lib.rs           *)
(* (HtmlSerializer, ElementRemover, RootFilter, ElementSkipper).           *)
(*                                                                         *)
(* The external tree-construction engine is the environment: it calls      *)
(* create_element, create_comment, append, append_doctype_to_document,     *)
(* parse_error and finish, naming only handles the adapter has returned to *)
(* it (and the document handle), and creating one node at a time.  The     *)
(* same call sequence is delivered to four sink configurations, the ones   *)
(* the repository's tests build: the serializer alone, and the serializer  *)
(* wrapped in an ElementRemover, in a RootFilter and in an ElementSkipper. *)
(***************************************************************************)
EXTENDS Integers, Sequences, FiniteSets, TLC

\* ------------------------------------------------------------------ bounds
MaxNodes == 3        \* nodes of one parse: created nodes and raw texts
MaxDoctypes == 1     \* append_doctype_to_document calls

\* the elements the engine creates: <<name, class attribute>>
ElementKinds == {<<"html", "">>, <<"p", "hello">>}
Texts == {"hello"}
Comments == {" comment "}
Messages == {"e1", "e2"}

\* Option<T>: None is the empty sequence, Some(x) the one-element sequence.
None == <<>>
Some(x) == <<x>>
IsSome(o) == o # <<>>
Unwrap(o) == o[1]

Last(s) == s[Len(s)]
Front(s) == SubSeq(s, 1, Len(s) - 1)
IsPrefix(s, t) == Len(s) <= Len(t) /\ SubSeq(t, 1, Len(s)) = s

Handles(ctx) == {ctx[i].handle : i \in 1..Len(ctx)}

\* ----------------------------------------------------------------- values
\* TraversalElement / HtmlPathElement: handle, name, attrs (the class
\* attribute is the one attribute the model carries).
PathElement(h, n, a) == [handle |-> h, name |-> n, attrs |-> a]
NoElement == PathElement(0, "", "")

as_html_path_element(el) ==
    [handle |-> el.handle, name |-> el.name, attrs |-> el.attrs]

\* enum Node
NodeElement(el) == [kind |-> "Element", element |-> el, text |-> ""]
NodeComment(text) == [kind |-> "Comment", element |-> NoElement, text |-> text]

\* NodeOrText
AppendNode(h) == [tag |-> "AppendNode", handle |-> h, text |-> ""]
AppendText(t) == [tag |-> "AppendText", handle |-> 0, text |-> t]

\* One call on an HtmlSink.
Event(type, ctx, el, text) ==
    [type |-> type, context |-> ctx, element |-> el, text |-> text]

\* The path that is open after an event: its Context, plus the element
\* itself when the event is an element.
OpenPath(ev) ==
    IF ev.type = "element" THEN Append(ev.context, ev.element) ELSE ev.context

\* ------------------------------------------------------------- serializer
\* HtmlSerializer: open_element_path, the tokens handed to html5ever's
\* serializer (out), and failed once an assert!/panic! of pop_to_path fired.
NewSerializer == [open_element_path |-> <<>>, out |-> <<>>, failed |-> FALSE]

OpenElement(el) == [handle |-> el.handle, name |-> el.name]

StartTag(el) == <<"start", el.name, el.attrs>>
EndTag(name) == <<"end", name>>
TextToken(text) == <<"text", text>>
CommentToken(text) == <<"comment", text>>
DoctypeToken(name) == <<"doctype", name>>

Min(a, b) == IF a < b THEN a ELSE b

\* the while loop of pop_to_path: pop and end_elem until the path is no
\* longer than the context
RECURSIVE PopWhileLonger(_, _)
PopWhileLonger(s, n) ==
    IF n < Len(s.open_element_path)
    THEN PopWhileLonger(
            [s EXCEPT !.open_element_path = Front(@),
                      !.out = Append(@, EndTag(Last(s.open_element_path).name))],
            n)
    ELSE s

\* mutant of pop_to_path: an `if` in place of the `while`, one frame closed
pop_to_path_once(s, context) ==
    IF Len(context) < Len(s.open_element_path)
    THEN [s EXCEPT !.open_element_path = Front(@),
                   !.out = Append(@, EndTag(Last(s.open_element_path).name))]
    ELSE s

\* mutant of pop_to_path: without the assert! on the shared positions
pop_to_path_unchecked(s, context) ==
    IF Len(context) > Len(s.open_element_path)
    THEN [s EXCEPT !.failed = TRUE]
    ELSE PopWhileLonger(s, Len(context))

pop_to_path(s, context) ==
    IF \E i \in 1..Min(Len(context), Len(s.open_element_path)) :
          context[i].handle # s.open_element_path[i].handle
    THEN [s EXCEPT !.failed = TRUE]
    ELSE IF Len(context) > Len(s.open_element_path)
    THEN [s EXCEPT !.failed = TRUE]
    ELSE PopWhileLonger(s, Len(context))

Ser_append_element(s, context, element) ==
    IF s.failed THEN s
    ELSE LET p == pop_to_path(s, context) IN
         IF p.failed THEN p
         ELSE [p EXCEPT !.out = Append(@, StartTag(element)),
                        !.open_element_path = Append(@, OpenElement(element))]

Ser_append_text(s, context, text) ==
    IF s.failed THEN s
    ELSE LET p == pop_to_path(s, context) IN
         IF p.failed THEN p ELSE [p EXCEPT !.out = Append(@, TextToken(text))]

Ser_append_comment(s, context, text) ==
    IF s.failed THEN s
    ELSE LET p == pop_to_path(s, context) IN
         IF p.failed THEN p ELSE [p EXCEPT !.out = Append(@, CommentToken(text))]

Ser_reset(s) == IF s.failed THEN s ELSE pop_to_path(s, <<>>)

Ser_append_doctype_to_document(s, name) ==
    IF s.failed THEN s ELSE [s EXCEPT !.out = Append(@, DoctypeToken(name))]

\* One HtmlSink call on the serializer.
Ser_call(s, ev) ==
    CASE ev.type = "element" -> Ser_append_element(s, ev.context, ev.element)
      [] ev.type = "text" -> Ser_append_text(s, ev.context, ev.text)
      [] ev.type = "comment" -> Ser_append_comment(s, ev.context, ev.text)
      [] ev.type = "doctype" -> Ser_append_doctype_to_document(s, ev.text)
      [] ev.type \in {"reset", "finish"} -> Ser_reset(s)

\* --------------------------------------------------------------- matchers
\* The match capability (crate::selector).  A Selector tests one element; its
\* context_match ignores the Context.  A ContextualSelector may also look at
\* the Context: ChildOf(parent, name) accepts a `name` element whose parent
\* frame is a `parent` element.
NameSelector(n) == [kind |-> "name", name |-> n, parent |-> ""]
ClassSelector(c) == [kind |-> "class", name |-> c, parent |-> ""]
ChildOf(par, n) == [kind |-> "child", name |-> n, parent |-> par]

is_match(m, element) ==
    CASE m.kind = "name" -> element.name = m.name
      [] m.kind = "class" -> element.attrs = m.name
      [] m.kind = "child" -> element.name = m.name

context_match(m, context, element) ==
    CASE m.kind \in {"name", "class"} -> is_match(m, element)
      [] m.kind = "child" ->
            /\ element.name = m.name
            /\ context # <<>>
            /\ Last(context).name = m.parent

\* ----------------------------------------------------------- filter stages
\* Every stage wraps a serializer (inner); fwd is the sequence of calls the
\* stage has made on its inner sink.  The serializer's Output is the unit.
Unit == "()"

Forward(st, ev) ==
    [st EXCEPT !.fwd = Append(@, ev), !.inner = Ser_call(@, ev)]

ResetEvent == Event("reset", <<>>, NoElement, "")
FinishEvent == Event("finish", <<>>, NoElement, "")

\* ---- ElementRemover: skip_handle; consulted lists the handles of the
\* elements the matcher was evaluated on.
NewRemover ==
    [skip_handle |-> None, consulted |-> <<>>, fwd |-> <<>>,
     inner |-> NewSerializer]

\* mutant of InSkipRange: only the parent frame is compared
InSkipRange_parent(r, context) ==
    /\ IsSome(r.skip_handle)
    /\ context # <<>>
    /\ Last(context).handle = Unwrap(r.skip_handle)

\* the skip-range test at the head of each append_*: TRUE when the event is
\* suppressed
InSkipRange(r, context) ==
    IsSome(r.skip_handle) /\ Unwrap(r.skip_handle) \in Handles(context)

\* mutant of Remover_append_element: a match opens no skip range
Remover_append_element_noskip(r, m, context, element) ==
    IF InSkipRange(r, context) THEN r
    ELSE LET r1 == [r EXCEPT !.skip_handle = None,
                             !.consulted = Append(@, element.handle)] IN
         IF context_match(m, context, element)
         THEN r1
         ELSE Forward(r1, Event("element", context, element, ""))

Remover_append_element(r, m, context, element) ==
    IF InSkipRange(r, context) THEN r
    ELSE LET r1 == [r EXCEPT !.skip_handle = None,
                             !.consulted = Append(@, element.handle)] IN
         IF context_match(m, context, element)
         THEN [r1 EXCEPT !.skip_handle = Some(element.handle)]
         ELSE Forward(r1, Event("element", context, element, ""))

Remover_append_text(r, context, text) ==
    IF InSkipRange(r, context) THEN r
    ELSE Forward([r EXCEPT !.skip_handle = None],
                 Event("text", context, NoElement, text))

Remover_append_comment(r, context, text) ==
    IF InSkipRange(r, context) THEN r
    ELSE Forward([r EXCEPT !.skip_handle = None],
                 Event("comment", context, NoElement, text))

Remover_reset(r) == Forward([r EXCEPT !.skip_handle = None], ResetEvent)

Remover_call(r, m, ev) ==
    IF r.inner.failed THEN r
    ELSE CASE ev.type = "element" ->
                Remover_append_element(r, m, ev.context, ev.element)
           [] ev.type = "text" -> Remover_append_text(r, ev.context, ev.text)
           [] ev.type = "comment" -> Remover_append_comment(r, ev.context, ev.text)
           [] ev.type = "doctype" -> Forward(r, ev)
           [] ev.type \in {"reset", "finish"} -> Remover_reset(r)

\* ---- RootFilter: select_handle, output (the collection), and returned,
\* the collection handed back by the last reset.
NewRootFilter ==
    [select_handle |-> None, output |-> <<>>, returned |-> <<>>,
     fwd |-> <<>>, inner |-> NewSerializer]

\* find_map over the enumerated context: the first index holding the handle
SelectIndex(context, h) ==
    CHOOSE i \in 1..Len(context) :
        /\ context[i].handle = h
        /\ \A j \in 1..(i - 1) : context[j].handle # h

\* mutant of Rebase: the slice starts after the selected frame
Rebase_after(context, h) ==
    SubSeq(context, SelectIndex(context, h) + 1, Len(context))

\* &context[select_index..]
Rebase(context, h) == SubSeq(context, SelectIndex(context, h), Len(context))

\* "select ends": clear the selection, reset the inner sink, collect
SelectEnds(f) ==
    [Forward([f EXCEPT !.select_handle = None], ResetEvent)
        EXCEPT !.output = Append(@, Unit)]

Selecting(f, context) ==
    IsSome(f.select_handle) /\ Unwrap(f.select_handle) \in Handles(context)

\* mutant of Root_append_element: returns once the selection has ended, the
\* triggering element is not matched again
Root_append_element_lost(f, m, context, element) ==
    IF Selecting(f, context)
    THEN Forward(f, Event("element", Rebase(context, Unwrap(f.select_handle)),
                          element, ""))
    ELSE IF IsSome(f.select_handle) THEN SelectEnds(f)
    ELSE IF context_match(m, context, element)
         THEN [Forward(f, Event("element", <<>>, element, ""))
                  EXCEPT !.select_handle = Some(element.handle)]
         ELSE f

\* mutant of Root_append_element: the matched root keeps its Context
Root_append_element_ctx(f, m, context, element) ==
    IF Selecting(f, context)
    THEN Forward(f, Event("element", Rebase(context, Unwrap(f.select_handle)),
                          element, ""))
    ELSE LET f1 == IF IsSome(f.select_handle) THEN SelectEnds(f) ELSE f IN
         IF context_match(m, context, element)
         THEN [Forward(f1, Event("element", context, element, ""))
                  EXCEPT !.select_handle = Some(element.handle)]
         ELSE f1

\* mutant of Root_append_element: the matcher is asked first, a match below
\* the selected root ends the selection and starts another
Root_append_element_nested(f, m, context, element) ==
    IF Selecting(f, context) /\ ~context_match(m, context, element)
    THEN Forward(f, Event("element", Rebase(context, Unwrap(f.select_handle)),
                          element, ""))
    ELSE LET f1 == IF IsSome(f.select_handle) THEN SelectEnds(f) ELSE f IN
         IF context_match(m, context, element)
         THEN [Forward(f1, Event("element", <<>>, element, ""))
                  EXCEPT !.select_handle = Some(element.handle)]
         ELSE f1

Root_append_element(f, m, context, element) ==
    IF Selecting(f, context)
    THEN Forward(f, Event("element", Rebase(context, Unwrap(f.select_handle)),
                          element, ""))
    ELSE LET f1 == IF IsSome(f.select_handle) THEN SelectEnds(f) ELSE f IN
         IF context_match(m, context, element)
         THEN [Forward(f1, Event("element", <<>>, element, ""))
                  EXCEPT !.select_handle = Some(element.handle)]
         ELSE f1

Root_append_text(f, context, text) ==
    IF Selecting(f, context)
    THEN Forward(f, Event("text", Rebase(context, Unwrap(f.select_handle)),
                          NoElement, text))
    ELSE IF IsSome(f.select_handle) THEN SelectEnds(f) ELSE f

Root_append_comment(f, context, text) ==
    IF Selecting(f, context)
    THEN Forward(f, Event("comment", Rebase(context, Unwrap(f.select_handle)),
                          NoElement, text))
    ELSE IF IsSome(f.select_handle) THEN SelectEnds(f) ELSE f

\* mutant of Root_reset: the collection is taken before the selection in
\* flight is closed
Root_reset_late(f) ==
    LET f1 == IF IsSome(f.select_handle) THEN SelectEnds(f) ELSE f IN
    [f1 EXCEPT !.returned = f.output,
               !.output = SubSeq(f1.output, Len(f.output) + 1, Len(f1.output))]

\* mutant of Root_reset: the collection is returned and kept
Root_reset_kept(f) ==
    LET f1 == IF IsSome(f.select_handle) THEN SelectEnds(f) ELSE f IN
    [f1 EXCEPT !.returned = f1.output]

Root_reset(f) ==
    LET f1 == IF IsSome(f.select_handle) THEN SelectEnds(f) ELSE f IN
    [f1 EXCEPT !.returned = f1.output, !.output = <<>>]

Root_call(f, m, ev) ==
    IF f.inner.failed THEN f
    ELSE CASE ev.type = "element" ->
                Root_append_element(f, m, ev.context, ev.element)
           [] ev.type = "text" -> Root_append_text(f, ev.context, ev.text)
           [] ev.type = "comment" -> Root_append_comment(f, ev.context, ev.text)
           [] ev.type = "doctype" -> f
           [] ev.type \in {"reset", "finish"} -> Root_reset(f)

\* ---- ElementSkipper
NewSkipper == [fwd |-> <<>>, inner |-> NewSerializer]

\* mutant of FilteredPath: only the parent frame is tested
FilteredPath_parent(m, context) ==
    IF context # <<>> /\ is_match(m, Last(context)) THEN Front(context)
    ELSE context

\* context.iter().filter(|element| !matcher.is_match(element))
FilteredPath(m, context) == SelectSeq(context, LAMBDA e : ~is_match(m, e))

\* mutant of Skipper_append_element: the matching element is forwarded
Skipper_append_element_keep(k, m, context, element) ==
    Forward(k, Event("element", FilteredPath(m, context), element, ""))

Skipper_append_element(k, m, context, element) ==
    IF context_match(m, context, element) THEN k
    ELSE Forward(k, Event("element", FilteredPath(m, context), element, ""))

Skipper_append_text(k, m, context, text) ==
    Forward(k, Event("text", FilteredPath(m, context), NoElement, text))

Skipper_append_comment(k, m, context, text) ==
    Forward(k, Event("comment", FilteredPath(m, context), NoElement, text))

Skipper_reset(k) == Forward(k, ResetEvent)

Skipper_call(k, m, ev) ==
    IF k.inner.failed THEN k
    ELSE CASE ev.type = "element" ->
                Skipper_append_element(k, m, ev.context, ev.element)
           [] ev.type = "text" -> Skipper_append_text(k, m, ev.context, ev.text)
           [] ev.type = "comment" ->
                Skipper_append_comment(k, m, ev.context, ev.text)
           [] ev.type = "doctype" -> k
           [] ev.type \in {"reset", "finish"} -> Skipper_reset(k)

\* ---- Fan-out (A, B): first is an ElementRemover, second a RootFilter, each
\* around its own serializer.  calls lists the calls made on the branches,
\* as <<branch, call>>; returned is the pair the last reset handed back.
\* A panic in the first branch ends the call before the second is reached.
NewFan ==
    [first |-> NewRemover, second |-> NewRootFilter, calls |-> <<>>,
     returned |-> <<>>]

\* the call a branch receives: finish is the trait's default, self.reset()
BranchCall(ev) == IF ev.type = "finish" THEN ResetEvent ELSE ev

\* mutant of Fan_call: the second branch is called before the first
Fan_call_swapped(f, mA, mB, ev) ==
    IF f.first.inner.failed \/ f.second.inner.failed THEN f
    ELSE LET b == Root_call(f.second, mB, BranchCall(ev)) IN
         IF b.inner.failed
         THEN [f EXCEPT !.second = b,
                        !.calls = Append(@, <<2, BranchCall(ev)>>)]
         ELSE LET a == Remover_call(f.first, mA, BranchCall(ev)) IN
              [f EXCEPT !.first = a, !.second = b,
                        !.calls = @ \o << <<2, BranchCall(ev)>>,
                                          <<1, BranchCall(ev)>> >>,
                        !.returned = IF ev.type \in {"reset", "finish"}
                                     THEN <<Unit, b.returned>> ELSE @]

Fan_call(f, mA, mB, ev) ==
    IF f.first.inner.failed \/ f.second.inner.failed THEN f
    ELSE LET a == Remover_call(f.first, mA, BranchCall(ev)) IN
         IF a.inner.failed
         THEN [f EXCEPT !.first = a,
                        !.calls = Append(@, <<1, BranchCall(ev)>>)]
         ELSE LET b == Root_call(f.second, mB, BranchCall(ev)) IN
              [f EXCEPT !.first = a, !.second = b,
                        !.calls = @ \o << <<1, BranchCall(ev)>>,
                                          <<2, BranchCall(ev)>> >>,
                        !.returned = IF ev.type \in {"reset", "finish"}
                                     THEN <<Unit, b.returned>> ELSE @]

\* ----------------------------------------------------------------- adapter
VARIABLES
    mode,          \* "document" (new_document) or "fragment" (new_fragment)
    parse_error,   \* ParseTraverser.parse_error: Option<message>
    handle,        \* ParseTraverser.handle: the last handle allocated
    traversal,     \* ParseTraverser.traversal: the Open-Path Stack
    free_nodes,    \* ParseTraverser.free_nodes: handle -> pending Node
    panicked,      \* a panic of the adapter has aborted the parse
    result,        \* what finish returned: None, <<"Ok">> or <<"Err", msg>>
    emitted,       \* the calls the adapter has made on its inner sink
    tree,          \* node -> children, as built by the accepted append calls
    lastCall,      \* the last call of the engine and how it ended
    texts, doctypes,  \* counters of the bounded calls
    selector,      \* the Selector of the ElementRemover and ElementSkipper
    matcher,       \* the ContextualSelector of the RootFilter
    ser,           \* inner sink: the HtmlSerializer alone
    remover,       \* inner sink: ElementRemover around a serializer
    root,          \* inner sink: RootFilter around a serializer
    skipper,       \* inner sink: ElementSkipper around a serializer
    fan            \* a Fan-out of two sinks, driven by the sink harness

adapter == <<mode, parse_error, handle, traversal, free_nodes, panicked, result>>
counters == <<texts, doctypes>>
sinks == <<emitted, ser, remover, root, skipper>>
vars == <<adapter, counters, sinks, tree, lastCall, selector, matcher, fan>>

get_document == 0

\* mutant of FirstHandle: new_fragment starts the counter at 0 as well
FirstHandle_zero(m) == 0

\* the handle new_document / new_fragment starts from
FirstHandle(m) == IF m = "fragment" THEN 1 ELSE 0

\* the handles the engine holds: those create_element / create_comment returned
Returned == (FirstHandle(mode) + 1)..handle

Call(op, ok, outcome) == [op |-> op, parent_ok |-> ok, outcome |-> outcome]

\* every sink configuration receives the call
Deliver(ev) ==
    /\ emitted' = Append(emitted, ev)
    /\ ser' = Ser_call(ser, ev)
    /\ remover' = Remover_call(remover, selector, ev)
    /\ root' = Root_call(root, matcher, ev)
    /\ skipper' = Skipper_call(skipper, selector, ev)

Running == ~panicked /\ result = None

\* The engine's side of the calls.  One parse makes at most MaxNodes nodes
\* (elements and comments it creates, raw texts it appends), and the tree
\* builder inserts a node right after creating it (create_element, then
\* append), so nothing is pending when it creates the next one, unless the
\* latch has kept the adapter from taking the node out of the pool.
NodesMade == (handle - FirstHandle(mode)) + texts
NothingPending == free_nodes = <<>> \/ IsSome(parse_error)

create_element(name, attrs) ==
    /\ Running
    /\ NodesMade < MaxNodes
    /\ NothingPending
    /\ handle' = handle + 1
    /\ free_nodes' = free_nodes @@
          (handle' :> NodeElement(PathElement(handle', name, attrs)))
    /\ lastCall' = Call("create_element", TRUE, "ok")
    /\ UNCHANGED <<mode, parse_error, traversal, panicked, result, counters,
                   sinks, tree, selector, matcher, fan>>

create_comment(text) ==
    /\ Running
    /\ NodesMade < MaxNodes
    /\ NothingPending
    /\ handle' = handle + 1
    /\ free_nodes' = free_nodes @@ (handle' :> NodeComment(text))
    /\ lastCall' = Call("create_comment", TRUE, "ok")
    /\ UNCHANGED <<mode, parse_error, traversal, panicked, result, counters,
                   sinks, tree, selector, matcher, fan>>

\* the validation of append: the parent is the document or on the stack
ParentOnPath(stack, parent) ==
    parent = get_document \/ \E i \in 1..Len(stack) : stack[i].handle = parent

\* mutant of PopToParent: every frame is popped, whoever the parent is
PopToParent_all(stack, parent) == <<>>

\* mutant of PopToParent: nothing is popped
PopToParent_kept(stack, parent) == stack

\* mutant of PopToParent: the parent's own frame is popped as well
PopToParent_over(stack, parent) ==
    IF parent = 0 THEN <<>>
    ELSE SubSeq(stack, 1,
                (CHOOSE i \in 1..Len(stack) : stack[i].handle = parent) - 1)

\* the `loop` of append: pop until the top frame is the parent
RECURSIVE PopToParent(_, _)
PopToParent(stack, parent) ==
    IF (IF stack = <<>> THEN 0 ELSE Last(stack).handle) = parent
    THEN stack
    ELSE PopToParent(Front(stack), parent)

\* the number of times the `loop` of append runs traversal.pop()
RECURSIVE Pops(_, _)
Pops(stack, parent) ==
    IF (IF stack = <<>> THEN 0 ELSE Last(stack).handle) = parent
    THEN 0
    ELSE 1 + Pops(Front(stack), parent)

\* mutant of Remove: the entry is read and left in the map
Remove_kept(map, key) == map

\* HashMap::remove
Remove(map, key) == [k \in DOMAIN map \ {key} |-> map[k]]

\* mutant of ContextOf: the stack walked deepest frame first
ContextOf_rev(stack) ==
    [i \in 1..Len(stack) |-> as_html_path_element(stack[Len(stack) + 1 - i])]

\* the traversal as a Context
ContextOf(stack) == [i \in 1..Len(stack) |-> as_html_path_element(stack[i])]

AddChild(t, parent, item) ==
    [n \in DOMAIN t \cup {parent} |->
        IF n = parent
        THEN (IF n \in DOMAIN t THEN t[n] ELSE <<>>) \o <<item>>
        ELSE t[n]]

TextItem(text) == [kind |-> "Text", element |-> NoElement, text |-> text]

append(parent, child) ==
    /\ Running
    /\ child.tag = "AppendText" => NodesMade < MaxNodes
    /\ texts' = IF child.tag = "AppendText" THEN texts + 1 ELSE texts
    /\ UNCHANGED <<mode, parse_error, handle, result, doctypes,
                   selector, matcher, fan>>
    /\ IF ~ParentOnPath(traversal, parent)
       THEN /\ lastCall' = Call("append", FALSE, "ignored")
            /\ UNCHANGED <<traversal, free_nodes, panicked, sinks, tree>>
       ELSE LET stack == PopToParent(traversal, parent)
                context == ContextOf(stack)
            IN
            IF IsSome(parse_error)
            THEN /\ traversal' = stack
                 /\ lastCall' = Call("append", TRUE, "suppressed")
                 /\ UNCHANGED <<free_nodes, panicked, sinks, tree>>
            ELSE IF child.tag = "AppendText"
            THEN /\ traversal' = stack
                 /\ Deliver(Event("text", context, NoElement, child.text))
                 /\ tree' = AddChild(tree, parent, TextItem(child.text))
                 /\ lastCall' = Call("append", TRUE, "emitted")
                 /\ UNCHANGED <<free_nodes, panicked>>
            ELSE IF child.handle \notin DOMAIN free_nodes
            THEN \* free_nodes.remove(&handle).unwrap() panics
                 /\ traversal' = stack
                 /\ panicked' = TRUE
                 /\ lastCall' = Call("append", TRUE, "panic")
                 /\ UNCHANGED <<free_nodes, sinks, tree>>
            ELSE LET node == free_nodes[child.handle] IN
                 /\ free_nodes' = Remove(free_nodes, child.handle)
                 /\ tree' = AddChild(tree, parent, node)
                 /\ lastCall' = Call("append", TRUE, "emitted")
                 /\ UNCHANGED panicked
                 /\ IF node.kind = "Element"
                    THEN /\ Deliver(Event("element", context,
                                          as_html_path_element(node.element), ""))
                         /\ traversal' = Append(stack, node.element)
                    ELSE /\ Deliver(Event("comment", context, NoElement, node.text))
                         /\ traversal' = stack

\* mutant of append_doctype_to_document: the latch suppresses the doctype
append_doctype_latched(name) ==
    /\ Running
    /\ doctypes < MaxDoctypes
    /\ handle = FirstHandle(mode)
    /\ doctypes' = doctypes + 1
    /\ IF IsSome(parse_error) THEN UNCHANGED sinks
       ELSE Deliver(Event("doctype", <<>>, NoElement, name))
    /\ lastCall' = Call("append_doctype_to_document", TRUE, "ok")
    /\ UNCHANGED <<adapter, texts, tree, selector, matcher, fan>>

\* The engine reports a doctype only in its initial insertion mode, before it
\* has created any node.
append_doctype_to_document(name) ==
    /\ Running
    /\ doctypes < MaxDoctypes
    /\ handle = FirstHandle(mode)
    /\ doctypes' = doctypes + 1
    /\ Deliver(Event("doctype", <<>>, NoElement, name))
    /\ lastCall' = Call("append_doctype_to_document", TRUE, "ok")
    /\ UNCHANGED <<adapter, texts, tree, selector, matcher, fan>>

ParseError(msg) ==
    /\ Running
    /\ parse_error' = Some(msg)
    /\ lastCall' = Call("parse_error", TRUE, "ok")
    /\ UNCHANGED <<mode, handle, traversal, free_nodes, panicked, result,
                   texts, doctypes, sinks, tree, selector, matcher, fan>>

\* mutant of finish: the latch is not looked at
finish_delegates ==
    /\ Running
    /\ lastCall' = Call("finish", TRUE, "ok")
    /\ UNCHANGED <<mode, parse_error, handle, traversal, free_nodes, panicked,
                   counters, tree, selector, matcher, fan>>
    /\ result' = <<"Ok">>
    /\ Deliver(FinishEvent)

finish ==
    /\ Running
    /\ lastCall' = Call("finish", TRUE, "ok")
    /\ UNCHANGED <<mode, parse_error, handle, traversal, free_nodes, panicked,
                   counters, tree, selector, matcher, fan>>
    /\ IF IsSome(parse_error)
       THEN /\ result' = <<"Err", Unwrap(parse_error)>>
            /\ UNCHANGED sinks
       ELSE /\ result' = <<"Ok">>
            /\ Deliver(FinishEvent)

\* ------------------------------------------------------------------- Init
\* the selector / matcher pairs the sink configurations are built with
Configurations ==
    { <<NameSelector("html"), NameSelector("p")>>,
      <<ClassSelector("hello"), ChildOf("html", "p")>> }

InitAdapter(m) ==
    /\ mode = m
    /\ parse_error = None
    /\ handle = FirstHandle(m)
    /\ traversal = IF m = "fragment" THEN <<PathElement(1, "body", "")>> ELSE <<>>
    /\ free_nodes = <<>>
    /\ panicked = FALSE
    /\ result = None
    /\ emitted = <<>>
    /\ tree = (get_document :> <<>>)
    /\ lastCall = Call("new", TRUE, "ok")
    /\ texts = 0 /\ doctypes = 0
    /\ ser = NewSerializer
    /\ remover = NewRemover
    /\ root = NewRootFilter
    /\ skipper = NewSkipper
    /\ fan = NewFan

Init ==
    \/ /\ InitAdapter("document")
       /\ \E c \in Configurations : selector = c[1] /\ matcher = c[2]
    \/ /\ InitAdapter("fragment")   \* parse_fragment: css_select!("html")
       /\ selector = NameSelector("html")
       /\ matcher = NameSelector("p")

Children == {AppendNode(h) : h \in Returned} \cup {AppendText(t) : t \in Texts}

Next ==
    \/ \E k \in ElementKinds : create_element(k[1], k[2])
    \/ \E t \in Comments : create_comment(t)
    \/ \E p \in {get_document} \cup Returned, c \in Children : append(p, c)
    \/ \E n \in {"html"} : append_doctype_to_document(n)
    \/ \E msg \in Messages : ParseError(msg)
    \/ finish

Spec == Init /\ [][Next]_vars

\* ---------------------------------------------------------------- resolving
\* The engine may ask for the name of any handle at any point of the parse.
NotFound == PathElement(0, "panic", "")

\* mutant of element: only the stack is searched
element_stack_only(stack, pool, target) ==
    IF \E i \in 1..Len(stack) : stack[i].handle = target
    THEN stack[CHOOSE i \in 1..Len(stack) :
                   /\ stack[i].handle = target
                   /\ \A j \in (i + 1)..Len(stack) : stack[j].handle # target]
    ELSE NotFound

\* ParseTraverser::element: the stack deepest frame first, then the pool's
\* Elements; NotFound stands for the panic
element(stack, pool, target) ==
    IF \E i \in 1..Len(stack) : stack[i].handle = target
    THEN stack[CHOOSE i \in 1..Len(stack) :
                   /\ stack[i].handle = target
                   /\ \A j \in (i + 1)..Len(stack) : stack[j].handle # target]
    ELSE IF target \in DOMAIN pool /\ pool[target].kind = "Element"
    THEN pool[target].element
    ELSE NotFound

elem_name(target) ==
    /\ Running
    /\ LET found == element(traversal, free_nodes, target) IN
       IF found = NotFound
       THEN /\ panicked' = TRUE
            /\ lastCall' = Call("elem_name", TRUE, "panic")
       ELSE /\ panicked' = FALSE
            /\ lastCall' = Call("elem_name", TRUE, found.name)
    /\ UNCHANGED <<mode, parse_error, handle, traversal, free_nodes, result,
                   counters, sinks, tree, selector, matcher, fan>>

\* the handles asked for: the document, every handle allocated, and the next
Targets == get_document..(handle + 1)

ResolveNext ==
    \/ Next
    \/ \E h \in Targets : elem_name(h)

\* resolving reads the adapter alone: one configuration of the sinks
ResolveInit ==
    /\ \E m \in {"document", "fragment"} : InitAdapter(m)
    /\ selector = NameSelector("html")
    /\ matcher = NameSelector("p")

ResolveSpec == ResolveInit /\ [][ResolveNext]_vars

\* the adapter alone, under one configuration of the sinks
AdapterSpec == ResolveInit /\ [][Next]_vars

\* ------------------------------------------------------------ sink harness
\* A second driver, for what the stages do on calls the adapter never makes:
\* the HtmlSink calls, reset included, are made directly on the five sinks
\* (serializer, remover, root filter, skipper, fan-out), with any Context.
\* The adapter stands idle.  A panic of a sink ends the run.
MaxCalls == 4        \* HtmlSink calls of one run of the harness

SinkElements ==
    {PathElement(1, "html", ""), PathElement(2, "p", "hello"),
     PathElement(3, "p", "")}
SinkContexts ==
    {<<>>} \cup {<<a>> : a \in SinkElements}
    \cup {<<a, b>> : a \in SinkElements, b \in SinkElements}

Aborted ==
    \/ ser.failed \/ remover.inner.failed \/ root.inner.failed
    \/ skipper.inner.failed
    \/ fan.first.inner.failed \/ fan.second.inner.failed

SinkCall(op, ev) ==
    /\ ~Aborted
    /\ lastCall.op # "finish"     \* finish consumes the sink
    /\ Len(emitted) < MaxCalls
    /\ Deliver(ev)
    /\ fan' = Fan_call(fan, selector, matcher, ev)
    /\ lastCall' = Call(op, TRUE, "ok")
    /\ UNCHANGED <<adapter, counters, tree, selector, matcher>>

Sink_append_element(context, elem) ==
    SinkCall("append_element", Event("element", context, elem, ""))

Sink_append_text(context, text) ==
    SinkCall("append_text", Event("text", context, NoElement, text))

Sink_append_comment(context, text) ==
    SinkCall("append_comment", Event("comment", context, NoElement, text))

Sink_append_doctype_to_document(name) ==
    SinkCall("append_doctype_to_document", Event("doctype", <<>>, NoElement, name))

Sink_reset == SinkCall("reset", ResetEvent)

Sink_finish == SinkCall("finish", FinishEvent)

\* the sinks of the tests remove_elements (.hello) and select_element (p)
SinkInit ==
    /\ InitAdapter("document")
    /\ selector = ClassSelector("hello")
    /\ matcher = NameSelector("p")

SinkNext ==
    \/ \E c \in SinkContexts, e \in SinkElements : Sink_append_element(c, e)
    \/ \E c \in SinkContexts, t \in Texts : Sink_append_text(c, t)
    \/ \E c \in SinkContexts, t \in Comments : Sink_append_comment(c, t)
    \/ \E n \in {"html"} : Sink_append_doctype_to_document(n)
    \/ Sink_reset
    \/ Sink_finish

SinkSpec == SinkInit /\ [][SinkNext]_vars

\* ================================================================= claims
IsStructural(ev) == ev.type \in {"element", "text", "comment"}
Structural(log) == SelectSeq(log, IsStructural)

\* the document-order serialization of a list of children of the tree
RECURSIVE SerializeItems(_, _)
SerializeItems(t, items) ==
    IF items = <<>> THEN <<>>
    ELSE LET it == Head(items) IN
         (CASE it.kind = "Element" ->
                  <<StartTag(it.element)>>
                  \o SerializeItems(t, IF it.element.handle \in DOMAIN t
                                        THEN t[it.element.handle] ELSE <<>>)
                  \o <<EndTag(it.element.name)>>
            [] it.kind = "Text" -> <<TextToken(it.text)>>
            [] it.kind = "Comment" -> <<CommentToken(it.text)>>)
         \o SerializeItems(t, Tail(items))

NotDoctype(tok) == tok[1] # "doctype"

\* C1: with no filter stage and no parse error, what the serializer has
\* written once finish has returned is the document-order serialization of
\* the tree the accepted append calls built: every node in append order,
\* every element closed after its descendants and before its next sibling,
\* innermost first, each exactly once.
C1_Identity ==
    result = <<"Ok">> =>
        /\ ~ser.failed
        /\ ser.open_element_path = <<>>
        /\ SelectSeq(ser.out, NotDoctype) = SerializeItems(tree, tree[get_document])

\* a finished parse whose tree has an element with an element child, followed
\* by a sibling
C1_Witness ==
    /\ result = <<"Ok">>
    /\ Len(tree[get_document]) >= 2
    /\ tree[get_document][1].kind = "Element"
    /\ LET h == tree[get_document][1].element.handle IN
       h \in DOMAIN tree /\ tree[h][1].kind = "Element"

\* C2: for two consecutive structural events the adapter emits, the Context
\* of the later one is a prefix of the open path of the earlier one.
C2_ContextMonotone ==
    LET log == Structural(emitted) IN
    \A i \in 1..(Len(log) - 1) : IsPrefix(log[i + 1].context, OpenPath(log[i]))

\* a pop of two frames and a push have both happened
C2_Witness ==
    LET log == Structural(emitted) IN
    \E i \in 1..(Len(log) - 1) :
        /\ Len(log[i].context) >= 1
        /\ log[i].type = "element"
        /\ log[i + 1].context = <<>>

\* the frames of the stack up to and including the parent's
UpToParent(stack, parent) ==
    IF parent = get_document THEN <<>>
    ELSE SubSeq(stack, 1, CHOOSE i \in 1..Len(stack) : stack[i].handle = parent)

ChildType(child) ==
    IF child.tag = "AppendText" THEN "text"
    ELSE IF free_nodes[child.handle].kind = "Element" THEN "element"
    ELSE "comment"

\* C3: an append whose parent is the document or on the stack, with no error
\* latched and a child that is raw text or a pending node, emits exactly one
\* event, whose Context is the stack cut back to the parent's frame, and
\* leaves the stack at that Context, plus the child when it is an Element;
\* create_element and create_comment emit nothing and leave the stack alone.
C3_AppendStep ==
    [][ /\ \A p \in {get_document} \cup Returned, c \in Children :
            ( /\ parse_error = None
              /\ ParentOnPath(traversal, p)
              /\ c.tag = "AppendNode" => c.handle \in DOMAIN free_nodes
              /\ append(p, c) )
            => LET stack == UpToParent(traversal, p)
                   ev == Last(emitted')
               IN /\ Len(emitted') = Len(emitted) + 1
                  /\ Front(emitted') = emitted
                  /\ ev.type = ChildType(c)
                  /\ ev.context = stack
                  /\ traversal' = IF ev.type = "element"
                                  THEN Append(stack, ev.element)
                                  ELSE stack
                  /\ ev.type = "element" => ev.element.handle = c.handle
        /\ handle' # handle => emitted' = emitted /\ traversal' = traversal
      ]_vars

\* an element has been appended under a parent that was not the top frame
C3_Witness ==
    \E i \in 1..(Len(emitted) - 1) :
        /\ emitted[i].type = "element" /\ emitted[i + 1].type = "element"
        /\ Len(emitted[i].context) >= 1
        /\ emitted[i + 1].context = SubSeq(emitted[i].context, 1, 1)
        /\ Len(traversal) = 2

\* the step delivers the call ev to the sinks
Delivers(ev) == emitted' = Append(emitted, ev)

\* the calls the engine's steps can deliver
Contexts == {SubSeq(traversal, 1, n) : n \in 0..Len(traversal)}
PendingElements ==
    {free_nodes[h].element : h \in {k \in DOMAIN free_nodes :
                                      free_nodes[k].kind = "Element"}}
StructuralCalls ==
    {Event("element", c, e, "") : c \in Contexts, e \in PendingElements}
    \cup {Event(ty, c, NoElement, t) :
             ty \in {"text", "comment"}, c \in Contexts, t \in Texts \cup Comments}

\* ---- C4
\* what a remover forwards, told from the whole input: roots is the set of
\* the elements the matcher accepted outside every removed subtree
RECURSIVE RemoverExpected(_, _, _)
RemoverExpected(m, log, roots) ==
    IF log = <<>> THEN <<>>
    ELSE LET ev == Head(log) IN
         IF ev.type = "doctype"
         THEN <<ev>> \o RemoverExpected(m, Tail(log), roots)
         ELSE IF ev.type \in {"reset", "finish"}
         THEN <<ResetEvent>> \o RemoverExpected(m, Tail(log), roots)
         ELSE IF Handles(ev.context) \cap roots # {}
         THEN RemoverExpected(m, Tail(log), roots)
         ELSE IF ev.type = "element" /\ context_match(m, ev.context, ev.element)
         THEN RemoverExpected(m, Tail(log), roots \cup {ev.element.handle})
         ELSE <<ev>> \o RemoverExpected(m, Tail(log), roots)

\* the elements outside every removed subtree, in input order
RECURSIVE OutsideRemoved(_, _, _)
OutsideRemoved(m, log, roots) ==
    IF log = <<>> THEN <<>>
    ELSE LET ev == Head(log) IN
         IF ev.type # "element" \/ Handles(ev.context) \cap roots # {}
         THEN OutsideRemoved(m, Tail(log), roots)
         ELSE <<ev.element.handle>>
              \o OutsideRemoved(m, Tail(log),
                    IF context_match(m, ev.context, ev.element)
                    THEN roots \cup {ev.element.handle} ELSE roots)

\* C4: the ElementRemover forwards, in input order and unchanged, exactly the
\* events that are neither an element the matcher accepts outside a skip
\* range nor an event whose Context holds the handle of such an element; text
\* and comments fall under the same test, and the matcher is consulted for
\* the elements outside the skip ranges only.
C4_Remover ==
    /\ remover.fwd = RemoverExpected(selector, emitted, {})
    /\ remover.consulted = OutsideRemoved(selector, emitted, {})

\* a removed element, an event below it that was dropped, and a later event
\* outside it that was forwarded
C4_Witness ==
    \E i, j, k \in 1..Len(emitted) :
        /\ i < j /\ j < k
        /\ emitted[i].type = "element"
        /\ context_match(selector, emitted[i].context, emitted[i].element)
        /\ emitted[i].element.handle \in Handles(emitted[j].context)
        /\ emitted[i].element.handle \notin Handles(emitted[k].context)
        /\ IsStructural(emitted[k])
        /\ remover.fwd # <<>> /\ Last(remover.fwd) = emitted[k]

\* ---- C5
\* the handles of the elements the RootFilter's matcher accepts
Matched ==
    {emitted[i].element.handle :
        i \in {j \in 1..Len(emitted) :
                 /\ emitted[j].type = "element"
                 /\ context_match(matcher, emitted[j].context,
                                  emitted[j].element)}}

OnlySelected ==
    \A i \in 1..Len(root.fwd) :
        LET e == root.fwd[i] IN
        \/ e.type = "reset"
        \/ e.type = "element" /\ e.context = <<>> /\ e.element.handle \in Matched
        \/ IsStructural(e) /\ e.context # <<>> /\ e.context[1].handle \in Matched

\* C5: while the RootFilter is idle, an element the matcher accepts is
\* forwarded with an empty Context and becomes the root of the selection;
\* every other event received while idle, and every doctype, is not
\* forwarded; the inner sink receives matched elements and events under a
\* matched root only.
C5_RootIdle ==
    /\ []OnlySelected
    /\ [][ /\ \A ev \in StructuralCalls :
                (Delivers(ev) /\ root.select_handle = None) =>
                    IF ev.type = "element"
                       /\ context_match(matcher, ev.context, ev.element)
                    THEN /\ root'.fwd = Append(root.fwd,
                                Event("element", <<>>, ev.element, ""))
                         /\ root'.select_handle = Some(ev.element.handle)
                    ELSE /\ root'.fwd = root.fwd
                         /\ root'.select_handle = None
           /\ doctypes' # doctypes => root'.fwd = root.fwd
       ]_vars

\* an element matched below two ancestors while the filter was idle, after a
\* text the idle filter dropped
C5_Witness ==
    /\ IsSome(root.select_handle)
    /\ Len(traversal) >= 2
    /\ Last(traversal).handle = Unwrap(root.select_handle)
    /\ Len(root.fwd) = 1
    /\ Len(emitted) >= 3

\* ---- C6
\* the claim as written: the forwarded Context is what follows H
C6_RebasedAfter ==
    [][ \A ev \in StructuralCalls :
            (Delivers(ev) /\ Selecting(root, ev.context)) =>
                \E k \in 1..Len(ev.context) :
                    /\ ev.context[k].handle = Unwrap(root.select_handle)
                    /\ root'.fwd = Append(root.fwd,
                          [ev EXCEPT !.context =
                              SubSeq(ev.context, k + 1, Len(ev.context))])
      ]_vars

\* C6 (amended): while the RootFilter is Selecting(H), an event whose Context
\* holds H is forwarded with the Context cut to start at H: the forwarded
\* Context is H's frame followed by the frames below it.
C6_RebasedAt ==
    [][ \A ev \in StructuralCalls :
            (Delivers(ev) /\ Selecting(root, ev.context)) =>
                \E k \in 1..Len(ev.context) :
                    /\ ev.context[k].handle = Unwrap(root.select_handle)
                    /\ root'.fwd = Append(root.fwd,
                          [ev EXCEPT !.context =
                              SubSeq(ev.context, k, Len(ev.context))])
                    /\ root'.select_handle = root.select_handle
      ]_vars

\* an event below a selected root that itself has an ancestor: the frames
\* above the root are cut and the root's own frame is kept
C6_Witness ==
    /\ emitted # <<>> /\ root.fwd # <<>>
    /\ LET ev == Last(emitted) IN
       /\ Len(ev.context) >= 2
       /\ ev.context[1].handle \notin Matched
       /\ ev.context[2].handle \in Matched
       /\ Last(root.fwd).context = SubSeq(ev.context, 2, Len(ev.context))

\* ---- C7
\* C7: when the RootFilter is Selecting(H) and an event arrives whose Context
\* does not hold H, the inner sink is reset once, its Output is appended to
\* the collection and the selection is cleared before anything of the event
\* is forwarded; the event is then handled as if idle, so that an element the
\* matcher accepts starts a new selection at an empty Context.
C7_SelectionEnds ==
    [][ \A ev \in StructuralCalls :
            ( /\ Delivers(ev)
              /\ IsSome(root.select_handle)
              /\ Unwrap(root.select_handle) \notin Handles(ev.context) ) =>
                LET again == /\ ev.type = "element"
                             /\ context_match(matcher, ev.context, ev.element)
                IN /\ root'.fwd = root.fwd \o <<ResetEvent>> \o
                         (IF again
                          THEN <<Event("element", <<>>, ev.element, "")>>
                          ELSE <<>>)
                   /\ root'.output = Append(root.output, Unit)
                   /\ root'.select_handle =
                         (IF again THEN Some(ev.element.handle) ELSE None)
                   /\ root'.inner.open_element_path =
                         (IF again THEN <<OpenElement(ev.element)>> ELSE <<>>)
                   /\ ~root'.inner.failed
      ]_vars

\* two adjacent matching siblings: the second was selected by the event that
\* ended the selection of the first
C7_Witness ==
    \E i \in 2..(Len(root.fwd) - 1) :
        /\ root.fwd[i].type = "reset"
        /\ root.fwd[i - 1].type = "element" /\ root.fwd[i - 1].context = <<>>
        /\ root.fwd[i + 1].type = "element" /\ root.fwd[i + 1].context = <<>>
        /\ Len(root.output) = 1
        /\ IsSome(root.select_handle)

\* ---- C8
RECURSIVE WithoutMatching(_, _)
WithoutMatching(m, context) ==
    IF context = <<>> THEN <<>>
    ELSE (IF is_match(m, Head(context)) THEN <<>> ELSE <<Head(context)>>)
         \o WithoutMatching(m, Tail(context))

RECURSIVE SkipperExpected(_, _)
SkipperExpected(m, log) ==
    IF log = <<>> THEN <<>>
    ELSE LET ev == Head(log) IN
         (IF ev.type = "doctype" THEN <<>>
          ELSE IF ev.type \in {"reset", "finish"} THEN <<ResetEvent>>
          ELSE IF ev.type = "element" /\ is_match(m, ev.element) THEN <<>>
          ELSE <<[ev EXCEPT !.context = WithoutMatching(m, ev.context)]>>)
         \o SkipperExpected(m, Tail(log))

\* C8: the ElementSkipper forwards no element that matches its predicate and
\* every other element, text and comment, in input order, each with the
\* incoming Context less its matching frames, the rest in their order; in
\* fragment parsing no html element reaches the output.
C8_Skipper ==
    /\ skipper.fwd = SkipperExpected(selector, emitted)
    /\ mode = "fragment" =>
          \A i \in 1..Len(skipper.inner.out) :
              skipper.inner.out[i][1] \in {"start", "end"}
                  => skipper.inner.out[i][2] # "html"

\* fragment parsing: an event two levels below the injected html root
C8_Witness ==
    /\ mode = "fragment"
    /\ \E i \in 1..Len(emitted) :
          /\ Len(emitted[i].context) = 2
          /\ emitted[i].context[1].name = "html"
          /\ ~is_match(selector, emitted[i].context[2])
          /\ Last(skipper.fwd).context = <<emitted[i].context[2]>>

\* ---- C9
\* C9: an append whose parent is neither the document nor on the Open-Path
\* Stack fails: the call ends in an error.
C9_InvalidParentFails ==
    (lastCall.op = "append" /\ ~lastCall.parent_ok)
        => (panicked \/ IsSome(parse_error))

\* ---- C10
Finishes(log) == SelectSeq(log, LAMBDA ev : ev.type = "finish")

\* C10: once parse_error has been called no append emits an element, text or
\* comment and no call panics; finish then returns Err with the latched
\* message and calls nothing on the inner sink; with no error latched finish
\* calls the inner sink's finish once and returns Ok.
C10_FailFast ==
    /\ [](Len(Finishes(emitted)) = (IF result = <<"Ok">> THEN 1 ELSE 0))
    /\ [][ /\ IsSome(parse_error) =>
                /\ Structural(emitted') = Structural(emitted)
                /\ ~panicked'
                /\ IsSome(parse_error')
           /\ (result = None /\ result' # None) =>
                IF IsSome(parse_error)
                THEN /\ result' = <<"Err", Unwrap(parse_error)>>
                     /\ UNCHANGED sinks
                ELSE /\ result' = <<"Ok">>
                     /\ emitted' = Append(emitted, FinishEvent)
                     /\ ser' = Ser_reset(ser)
       ]_vars

\* an append has been suppressed after events had been emitted
C10_Witness ==
    /\ IsSome(parse_error)
    /\ lastCall.outcome = "suppressed"
    /\ Structural(emitted) # <<>>
    /\ free_nodes # <<>>

\* ---- C11
\* C11: the error latch is first-one-wins: once a message is latched a later
\* parse_error call does not change it, and the Err that finish returns
\* carries that first message.
C11_FirstWins ==
    [][ /\ IsSome(parse_error) => parse_error' = parse_error
        /\ (result = None /\ result' # None /\ IsSome(parse_error)) =>
               result' = <<"Err", Unwrap(parse_error)>>
      ]_vars

\* ---- C12
InPool(h) == h \in DOMAIN free_nodes
OnStack(h) == h \in Handles(traversal)

\* the step reports handle h to the inner sink: one event is emitted, the
\* element h or the text of the comment h
Reports(h) ==
    /\ Len(emitted') = Len(emitted) + 1
    /\ Front(emitted') = emitted
    /\ LET ev == Last(emitted') IN
       IF free_nodes[h].kind = "Element"
       THEN ev.type = "element" /\ ev.element.handle = h
       ELSE ev.type = "comment" /\ ev.text = free_nodes[h].text

\* the claim as written: every created handle is in exactly one of the two
C12_ExactlyOne == \A h \in Returned : InPool(h) # OnStack(h)

\* C12 (amended): a created handle is never in the Node Pool and on the
\* Open-Path Stack at once; it is in the Pool from its creation to the append
\* call that reports it to the inner sink, which removes it, and it never
\* returns to the Pool; only an Element that step removed from the Pool is
\* pushed on the Stack, so a reported Comment and a popped Element are in
\* neither.
C12_AtMostOne ==
    /\ [](\A h \in Returned : ~(InPool(h) /\ OnStack(h)))
    /\ [][ \A h \in Returned :
              /\ (InPool(h) /\ ~InPool(h)') => Reports(h)
              /\ ~InPool(h) => ~InPool(h)'
              /\ (OnStack(h)' /\ ~OnStack(h)) =>
                    (InPool(h) /\ free_nodes[h].kind = "Element")
       ]_vars

\* one handle on the stack, one reported and in neither, one still pending
C12_Witness ==
    \E a, b, c \in Returned :
        /\ OnStack(a) /\ ~InPool(a)
        /\ ~OnStack(b) /\ ~InPool(b)
        /\ InPool(c) /\ ~OnStack(c)

\* ---- C13
Distinct(ctx) == \A i, j \in 1..Len(ctx) : ctx[i].handle = ctx[j].handle => i = j

\* every handle the adapter holds or has shown to the inner sink
KnownHandles ==
    DOMAIN free_nodes \cup Handles(traversal)
    \cup UNION {Handles(OpenPath(emitted[i])) : i \in 1..Len(emitted)}

\* C13: the handle create_element / create_comment returns is greater than
\* every handle returned before it, is not the document handle 0 and, in
\* fragment mode, not the handle of the pre-seeded frame; the handles on the
\* Open-Path Stack and in every emitted Context (with the element reported)
\* are pairwise distinct.
C13_Handles ==
    /\ [](/\ Distinct(traversal)
          /\ \A i \in 1..Len(emitted) : Distinct(OpenPath(emitted[i])))
    /\ [][ handle' # handle =>
              /\ DOMAIN free_nodes' = DOMAIN free_nodes \cup {handle'}
              /\ handle' \notin KnownHandles \cup {get_document}
              /\ \A h \in KnownHandles : h < handle'
       ]_vars

\* fragment parsing: a third handle has been created while two created
\* elements are on the stack
C13_Witness ==
    /\ mode = "fragment"
    /\ Len(traversal) = 2
    /\ handle = FirstHandle(mode) + 3
    /\ handle \in DOMAIN free_nodes
    /\ \E i \in 1..Len(emitted) : Len(OpenPath(emitted[i])) = 2

\* ---- C14
NoDoctype(log) == SelectSeq(log, LAMBDA ev : ev.type # "doctype")

\* the prefix-extension / prefix-shrink rule on the calls between two resets
ObeysRule(log) ==
    LET l == NoDoctype(log) IN
    \A i \in 1..(Len(l) - 1) :
        (IsStructural(l[i]) /\ IsStructural(l[i + 1])) =>
            IsPrefix(l[i + 1].context, OpenPath(l[i]))

\* the node an event reports, whatever its Context
SameNode(a, b) == a.type = b.type /\ a.element = b.element /\ a.text = b.text

\* the nodes of a appear in b in the same order
RECURSIVE InOrder(_, _)
InOrder(a, b) ==
    IF a = <<>> THEN TRUE
    ELSE IF b = <<>> THEN FALSE
    ELSE IF SameNode(Head(a), Head(b)) THEN InOrder(Tail(a), Tail(b))
    ELSE InOrder(a, Tail(b))

\* C14: fed the adapter's stream, which obeys the prefix rule, each of the
\* ElementRemover, ElementSkipper and RootFilter forwards a stream in which,
\* between two resets of the inner sink, every Context is a prefix of the
\* open path of the event forwarded before it, and the events forwarded keep
\* the order in which they were received.
C14_StagesObeyRule ==
    /\ ObeysRule(emitted)
    /\ \A st \in {remover, skipper, root} :
          /\ ObeysRule(st.fwd)
          /\ InOrder(Structural(st.fwd), Structural(emitted))
          /\ ~st.inner.failed

\* the remover has dropped an event and forwarded others, the skipper has
\* forwarded an event with a shortened Context, and the root filter has
\* forwarded a rebased event
C14_Witness ==
    /\ remover.fwd # <<>>
    /\ Len(remover.fwd) < Len(emitted)
    /\ \E i \in 1..Len(skipper.fwd), j \in 1..Len(emitted) :
          /\ SameNode(skipper.fwd[i], emitted[j])
          /\ skipper.fwd[i].context # <<>>
          /\ Len(skipper.fwd[i].context) < Len(emitted[j].context)
    /\ Len(root.fwd) >= 2
    /\ Last(root.fwd).context # <<>>
    /\ Last(root.fwd).context # Last(emitted).context

\* ---- C15
\* the closing tags of the frames of path above the first n, innermost first
Closings(path, n) ==
    [i \in 1..(Len(path) - n) |-> EndTag(path[Len(path) + 1 - i].name)]

TokenOf(ev) ==
    CASE ev.type = "element" -> StartTag(ev.element)
      [] ev.type = "text" -> TextToken(ev.text)
      [] ev.type = "comment" -> CommentToken(ev.text)

HandleSeq(path) == [i \in 1..Len(path) |-> path[i].handle]

\* C15: on an element, text or comment call the serializer, when the Context
\* is longer than its open-tag stack or differs from it in the handle at a
\* shared position, aborts and writes nothing; otherwise it writes one
\* closing tag for each frame above the Context, innermost first, then the
\* event, and its stack's handles are then those of the Context, plus the
\* element's for append_element; reset reconciles against the empty Context.
C15_SerializerReconciles ==
    /\ [][ (Len(emitted') = Len(emitted) + 1 /\ IsStructural(Last(emitted'))
            /\ ~ser.failed) =>
               LET ev == Last(emitted')
                   ctx == ev.context
                   path == ser.open_element_path
                   bad == \/ Len(ctx) > Len(path)
                          \/ \E i \in 1..Min(Len(ctx), Len(path)) :
                                ctx[i].handle # path[i].handle
               IN IF bad
                  THEN /\ ser'.failed
                       /\ ser'.out = ser.out
                       /\ ser'.open_element_path = path
                  ELSE /\ ~ser'.failed
                       /\ ser'.out = ser.out \o Closings(path, Len(ctx))
                                            \o <<TokenOf(ev)>>
                       /\ HandleSeq(ser'.open_element_path) = HandleSeq(OpenPath(ev))
         ]_vars
    /\ [][ (Len(emitted') = Len(emitted) + 1 /\ Last(emitted').type = "reset"
            /\ ~ser.failed) =>
               /\ ~ser'.failed
               /\ ser'.out = ser.out \o Closings(ser.open_element_path, 0)
               /\ ser'.open_element_path = <<>>
       ]_vars

\* the serializer has closed a frame on one call and aborted on a later one
\* whose Context, no longer than its stack, names a handle it has not open
C15_Witness ==
    /\ ser.failed
    /\ \E i \in 1..Len(ser.out) : ser.out[i][1] = "end"
    /\ Last(emitted).context # <<>>
    /\ Len(Last(emitted).context) <= Len(ser.open_element_path)

\* ---- C16
\* C16: the fan-out makes every call on its first branch and then, with the
\* same arguments, on its second; what its reset returns is the pair of the
\* branches' Outputs, and each branch ends as the same sink does when it
\* receives the calls alone.
C16_FanOut ==
    /\ \A i \in 1..Len(fan.calls) :
          fan.calls[i] = <<2 - (i % 2), BranchCall(emitted[(i + 1) \div 2])>>
    /\ ~Aborted =>
          /\ Len(fan.calls) = 2 * Len(emitted)
          /\ fan.first = remover
          /\ fan.second = root
          /\ fan.returned =
                IF \E i \in 1..Len(emitted) : emitted[i].type \in {"reset", "finish"}
                THEN <<Unit, root.returned>>
                ELSE <<>>

\* a reset has returned a pair whose second Output holds a selection, after
\* calls the first branch has dropped and the second has forwarded
C16_Witness ==
    /\ ~Aborted
    /\ fan.returned # <<>>
    /\ fan.returned[2] # <<>>
    /\ Len(Structural(fan.first.fwd)) < Len(Structural(fan.second.fwd))
    /\ fan.first.fwd # fan.second.fwd

\* ---- C17
\* a stage as a new instance is, the logs of what it has done aside
FreshSer(s) == s.open_element_path = <<>> /\ ~s.failed
FreshRemover(r) == r.skip_handle = None /\ FreshSer(r.inner)
FreshSkipper(k) == FreshSer(k.inner)
FreshRoot(f) == f.select_handle = None /\ f.output = <<>> /\ FreshSer(f.inner)

\* what new instances do with a sequence of calls
RECURSIVE RunSer(_, _)
RunSer(st, log) ==
    IF log = <<>> THEN st ELSE RunSer(Ser_call(st, Head(log)), Tail(log))
RECURSIVE RunRemover(_, _, _)
RunRemover(st, m, log) ==
    IF log = <<>> THEN st
    ELSE RunRemover(Remover_call(st, m, Head(log)), m, Tail(log))
RECURSIVE RunSkipper(_, _, _)
RunSkipper(st, m, log) ==
    IF log = <<>> THEN st
    ELSE RunSkipper(Skipper_call(st, m, Head(log)), m, Tail(log))
RECURSIVE RunRoot(_, _, _)
RunRoot(st, m, log) ==
    IF log = <<>> THEN st
    ELSE RunRoot(Root_call(st, m, Head(log)), m, Tail(log))

IsSuffix(a, b) ==
    Len(a) <= Len(b) /\ SubSeq(b, Len(b) - Len(a) + 1, Len(b)) = a

IsReset(ev) == ev.type \in {"reset", "finish"}

\* the calls received since the last reset
SinceReset ==
    LET R == {i \in 1..Len(emitted) : IsReset(emitted[i])}
        k == IF R = {} THEN 0 ELSE CHOOSE i \in R : \A j \in R : j <= i
    IN SubSeq(emitted, k + 1, Len(emitted))

\* the stage st, reused after a reset, has done with the calls since what the
\* new instance nw does with them
AsFresh(st, nw) ==
    /\ IsSuffix(nw.fwd, st.fwd)
    /\ IsSuffix(nw.inner.out, st.inner.out)
    /\ nw.inner.open_element_path = st.inner.open_element_path
    /\ nw.inner.failed = st.inner.failed

\* C17: a reset hands back the accumulated Output and leaves the stage as a
\* new instance is (serializer: no open tag; remover: no skip range; root
\* filter: idle, empty collection; fan-out: both branches), a second reset
\* right after it hands back the empty Output and forwards nothing but the
\* inner reset, and the calls after a reset are processed as a new instance
\* processes them.
C17_ResetIdempotent ==
    /\ [][ (Len(emitted') = Len(emitted) + 1 /\ IsReset(Last(emitted'))
            /\ ~Aborted') =>
               /\ FreshSer(ser') /\ FreshRemover(remover')
               /\ FreshSkipper(skipper') /\ FreshRoot(root')
               /\ FreshRemover(fan'.first) /\ FreshRoot(fan'.second)
               /\ root'.returned =
                     root.output \o (IF IsSome(root.select_handle)
                                     THEN <<Unit>> ELSE <<>>)
               /\ fan'.returned = <<Unit, root'.returned>>
               /\ (emitted # <<>> /\ IsReset(Last(emitted))) =>
                     /\ root'.returned = <<>>
                     /\ fan'.returned = <<Unit, <<>> >>
                     /\ ser'.out = ser.out
                     /\ root'.fwd = root.fwd
                     /\ remover'.fwd = Append(remover.fwd, ResetEvent)
                     /\ remover'.inner.out = remover.inner.out
                     /\ skipper'.inner.out = skipper.inner.out
         ]_vars
    /\ [](LET log == SinceReset IN
          /\ IsSuffix(RunSer(NewSerializer, log).out, ser.out)
          /\ RunSer(NewSerializer, log).open_element_path = ser.open_element_path
          /\ AsFresh(remover, RunRemover(NewRemover, selector, log))
          /\ remover.skip_handle = RunRemover(NewRemover, selector, log).skip_handle
          /\ AsFresh(skipper, RunSkipper(NewSkipper, selector, log))
          /\ AsFresh(root, RunRoot(NewRootFilter, matcher, log))
          /\ root.select_handle = RunRoot(NewRootFilter, matcher, log).select_handle
          /\ root.output = RunRoot(NewRootFilter, matcher, log).output)

\* two resets in a row after a selection, the first of which returned it,
\* and a call after them that started a new selection
C17_Witness ==
    /\ ~Aborted
    /\ Len(emitted) = 4
    /\ emitted[1].type = "element"
    /\ emitted[2].type = "reset" /\ emitted[3].type = "reset"
    /\ emitted[4].type = "element"
    /\ IsSome(root.select_handle)
    /\ root.output = <<>>
    /\ Len(root.fwd) = 3

\* ---- C18
Count(log, Test(_)) == Len(SelectSeq(log, Test))

\* a selection starts with the one element forwarded at an empty Context
IsStart(ev) == ev.type = "element" /\ ev.context = <<>>

\* what the root filter has forwarded since the last reset it received
ForwardedSinceReset ==
    LET n == Len(RunRoot(NewRootFilter, matcher, SinceReset).fwd) IN
    SubSeq(root.fwd, Len(root.fwd) - n + 1, Len(root.fwd))

\* C18: a reset or finish of the root filter while a selection is in flight
\* resets the inner sink and appends its Output to the collection, then
\* returns the collection; the collection returned holds one Output for
\* each selection started since the previous reset, as many as inner resets
\* were made since, each Output appended by the inner reset that closed its
\* selection.
C18_RootReset ==
    /\ [][ (Len(emitted') = Len(emitted) + 1 /\ IsReset(Last(emitted'))
            /\ ~Aborted') =>
               LET inflight == IsSome(root.select_handle)
                   seg == ForwardedSinceReset
                   closed == IF inflight THEN <<ResetEvent>> ELSE <<>>
               IN /\ root'.fwd = root.fwd \o closed
                  /\ root'.returned =
                        root.output \o (IF inflight THEN <<Unit>> ELSE <<>>)
                  /\ Len(root'.returned) = Count(seg, IsStart)
                  /\ Len(root'.returned) = Count(seg \o closed, IsReset)
                  /\ root'.inner.open_element_path = <<>>
                  /\ root'.select_handle = None /\ root'.output = <<>>
         ]_vars
    /\ [][ Len(root'.output) > Len(root.output) =>
               /\ root'.output = Append(root.output, Unit)
               /\ \E i \in (Len(root.fwd) + 1)..Len(root'.fwd) :
                     /\ root'.fwd[i] = ResetEvent
                     /\ \A j \in (Len(root.fwd) + 1)..(i - 1) :
                           ~IsStart(root'.fwd[j])
         ]_vars
    /\ [](\A n \in 0..Len(root.fwd) :
            Count(SubSeq(root.fwd, 1, n), IsStart)
              - Count(SubSeq(root.fwd, 1, n), IsReset) \in {0, 1})

\* a reset has closed the selection in flight and returned two Outputs: the
\* one of an earlier selection, ended by its sibling, and the forced one
C18_Witness ==
    /\ ~Aborted
    /\ emitted # <<>> /\ IsReset(Last(emitted))
    /\ Len(root.returned) = 2
    /\ Len(root.fwd) >= 4
    /\ Last(root.fwd) = ResetEvent
    /\ IsStructural(root.fwd[Len(root.fwd) - 1])

\* ---- C19
\* the elements the parse has had so far: pending, appended, and the frame a
\* fragment parse starts with
ElementsMade ==
    {free_nodes[k].element :
        k \in {j \in DOMAIN free_nodes : free_nodes[j].kind = "Element"}}
    \cup UNION {{tree[n][i].element :
                    i \in {j \in 1..Len(tree[n]) : tree[n][j].kind = "Element"}} :
                 n \in DOMAIN tree}
    \cup {traversal[i] : i \in 1..Len(traversal)}

\* C19: elem_name returns the name of the element of the handle when the
\* handle is on the Open-Path Stack or is a pending Element of the Node
\* Pool, and aborts for every other handle: the document's, one never
\* created, a Comment's, and that of an Element popped off the stack.
C19_Resolve ==
    [][ \A h \in Targets :
          (Running /\ lastCall'.op = "elem_name" /\ elem_name(h)) =>
             IF OnStack(h) \/ (InPool(h) /\ free_nodes[h].kind = "Element")
             THEN /\ ~panicked'
                  /\ \E e \in ElementsMade :
                        e.handle = h /\ lastCall'.outcome = e.name
                  /\ \A e \in ElementsMade :
                        e.handle = h => lastCall'.outcome = e.name
             ELSE /\ panicked'
                  /\ lastCall'.outcome = "panic"
      ]_vars

\* elem_name has aborted the parse where no handle resolves any more: an
\* Element was appended and has been popped off the stack, a Comment is
\* pending
C19_Witness ==
    /\ lastCall.op = "elem_name" /\ panicked
    /\ traversal = <<>>
    /\ \E e \in ElementsMade : ~InPool(e.handle)
    /\ \E k \in DOMAIN free_nodes : free_nodes[k].kind = "Comment"
    /\ \A k \in DOMAIN free_nodes : free_nodes[k].kind = "Comment"

\* ---- C20
\* the skipper's decision on an incoming call: TRUE when it drops the call
Dropped(ev) ==
    \/ ev.type = "doctype"
    \/ ev.type = "element" /\ context_match(selector, ev.context, ev.element)

\* the incoming calls the skipper forwards, in order
Kept == SelectSeq(emitted, LAMBDA ev : ~Dropped(ev))

\* the skipper forwarded the element of this frame before its i-th forward
ForwardedBefore(frame, i) ==
    \E j \in 1..(i - 1) :
        skipper.fwd[j].type = "element" /\ skipper.fwd[j].element = frame

\* the skipper dropped the element of this frame when it came in
DroppedElement(frame) ==
    \E j \in 1..Len(emitted) :
        /\ emitted[j].type = "element" /\ emitted[j].element = frame
        /\ Dropped(emitted[j])

SelectedRoots ==
    {root.fwd[i].element.handle :
        i \in {j \in 1..Len(root.fwd) : IsStart(root.fwd[j])}}

\* the matching elements of the input under no selected element
TopMatches ==
    {emitted[i].element.handle :
        i \in {j \in 1..Len(emitted) :
                 /\ emitted[j].type = "element"
                 /\ context_match(matcher, emitted[j].context,
                                  emitted[j].element)
                 /\ Handles(emitted[j].context) \cap SelectedRoots = {}}}

\* the Outputs collected so far, the one of the selection in flight included
Collected ==
    IF emitted # <<>> /\ IsReset(Last(emitted)) THEN Len(root.returned)
    ELSE Len(root.output) + (IF IsSome(root.select_handle) THEN 1 ELSE 0)

\* C21: while the RootFilter is Selecting(H), an element the matcher accepts
\* whose Context holds H starts no selection and causes no inner reset: it
\* is forwarded as a descendant of H; the number of Outputs collected is
\* the number of matching elements with no selected element above them.
C21_NestedMatch ==
    /\ [][ \A ev \in StructuralCalls :
              ( /\ ev.type = "element"
                /\ Selecting(root, ev.context)
                /\ context_match(matcher, ev.context, ev.element)
                /\ Delivers(ev) ) =>
                   /\ root'.select_handle = root.select_handle
                   /\ root'.output = root.output
                   /\ root'.fwd = Append(root.fwd,
                         [ev EXCEPT !.context =
                             Rebase(ev.context, Unwrap(root.select_handle))])
                   /\ Last(root'.fwd).context # <<>>
         ]_vars
    /\ [](/\ Collected = Cardinality(TopMatches)
          /\ SelectedRoots = TopMatches
          /\ TopMatches = {h \in Matched :
                \A j \in 1..Len(emitted) :
                    (emitted[j].type = "element"
                       /\ emitted[j].element.handle = h) =>
                          Handles(emitted[j].context) \cap Matched = {}})

\* a finished parse of three matching elements, the second inside the first
\* and the third beside it: two Outputs were collected
C21_Witness ==
    /\ result = <<"Ok">>
    /\ Cardinality(Matched) = 3
    /\ Len(root.returned) = 2
    /\ \E i \in 1..Len(root.fwd) :
          /\ root.fwd[i].type = "element"
          /\ Len(root.fwd[i].context) = 1
          /\ root.fwd[i].element.handle \in Matched

\* ---- C22
\* what every append(p, c) step shows of its arguments; tested before the
\* action itself
ShowsAppend(p, c) ==
    /\ lastCall'.op = "append"
    /\ lastCall'.parent_ok = ParentOnPath(traversal, p)
    /\ (c.tag = "AppendText") = (texts' # texts)
    /\ free_nodes' # free_nodes =>
          (c.tag = "AppendNode" /\ c.handle \notin DOMAIN free_nodes')

\* C22: once a parse error is latched, every append leaves the entries of
\* the Node Pool in place, pushes no frame and emits nothing: the stack is
\* cut back to the parent's frame and can only shrink, the pool can only
\* grow; an Element appended after the latch stays pending, and an append
\* naming a pending node as parent is ignored.
C22_AfterLatch ==
    [][ IsSome(parse_error) =>
          /\ IsSome(parse_error')
          /\ IsPrefix(traversal', traversal)
          /\ \A k \in DOMAIN free_nodes :
                /\ k \in DOMAIN free_nodes' /\ free_nodes'[k] = free_nodes[k]
                /\ k \notin Handles(traversal')
          /\ lastCall'.op = "append" =>
                /\ free_nodes' = free_nodes
                /\ emitted' = emitted
                /\ lastCall'.outcome \in {"ignored", "suppressed"}
                /\ ~lastCall'.parent_ok =>
                      traversal' = traversal /\ lastCall'.outcome = "ignored"
                /\ lastCall'.parent_ok =>
                      \A p \in {get_document} \cup Returned :
                         IF ParentOnPath(traversal, p)
                         THEN (\E c \in Children :
                                  ShowsAppend(p, c) /\ append(p, c)) =>
                                     traversal' = UpToParent(traversal, p)
                         ELSE \A c \in Children : ~append(p, c)
      ]_vars

\* a fragment parse latched before its first append: the append of the
\* first element was suppressed and unwound the stack, a second element was
\* created, and an append naming a pending element as parent was ignored
C22_Witness ==
    /\ mode = "fragment" /\ IsSome(parse_error)
    /\ emitted = <<>> /\ traversal = <<>>
    /\ lastCall = Call("append", FALSE, "ignored")
    /\ DOMAIN free_nodes = Returned
    /\ Cardinality(Returned) = 2
    /\ \A k \in Returned : free_nodes[k].kind = "Element"

\* ---- C23
\* C23: every append_doctype_to_document call of the engine is forwarded to
\* the inner sink, whatever the Open-Path Stack holds and whether or not a
\* parse error is latched: the serializer writes the doctype, and the call
\* changes neither the stack, the pool nor the latch.
C23_DoctypeForwarded ==
    [][ \A n \in {"html"} :
          (lastCall'.op = "append_doctype_to_document"
             /\ append_doctype_to_document(n)) =>
               /\ emitted' = Append(emitted, Event("doctype", <<>>, NoElement, n))
               /\ ser'.out = Append(ser.out, DoctypeToken(n))
               /\ ser'.open_element_path = ser.open_element_path
               /\ ~ser'.failed
               /\ UNCHANGED <<traversal, free_nodes, parse_error>>
      ]_vars

\* a fragment parse with the body frame on the stack and an error latched:
\* the doctype reported next was written by the serializer
C23_Witness ==
    /\ IsSome(parse_error)
    /\ traversal # <<>>
    /\ lastCall.op = "append_doctype_to_document"
    /\ emitted # <<>> /\ Last(emitted).type = "doctype"
    /\ ser.out # <<>> /\ Last(ser.out) = DoctypeToken("html")

\* ---- C24
\* C24: every append call ends, whatever the parent and the stack: the
\* unwind loop runs only when the parent is the document or on the stack;
\* it then pops no more frames than the stack holds and leaves the parent's
\* frame and every frame below it in place; otherwise the call changes
\* nothing.
C24_UnwindEnds ==
    /\ [](\A p \in Targets :
            ParentOnPath(traversal, p) =>
               LET n == Pops(traversal, p) IN
               /\ n <= Len(traversal)
               /\ PopToParent(traversal, p) = SubSeq(traversal, 1, Len(traversal) - n)
               /\ PopToParent(traversal, p) = UpToParent(traversal, p)
               /\ p # get_document => Last(PopToParent(traversal, p)).handle = p)
    /\ [][ lastCall'.op = "append" =>
              IF lastCall'.parent_ok
              THEN \A p \in {get_document} \cup Returned :
                      IF ParentOnPath(traversal, p)
                      THEN (\E c \in Children :
                               ShowsAppend(p, c) /\ append(p, c)) =>
                           /\ IsPrefix(UpToParent(traversal, p), traversal')
                           /\ Len(traversal') >=
                                 Len(traversal) - Pops(traversal, p)
                           /\ Len(traversal') <=
                                 Len(traversal) - Pops(traversal, p) + 1
                      ELSE \A c \in Children : ~append(p, c)
              ELSE /\ lastCall' = Call("append", FALSE, "ignored")
                   /\ UNCHANGED <<traversal, free_nodes, emitted, panicked>>
         ]_vars

\* an append named the parent of the deepest frame: that frame was popped,
\* the parent's frame stayed and is the Context of the new child
C24_Witness ==
    /\ lastCall = Call("append", TRUE, "emitted")
    /\ Len(emitted) = 3
    /\ emitted[2].type = "element"
    /\ Len(emitted[2].context) = 1
    /\ emitted[3].context = emitted[2].context
    /\ IsPrefix(emitted[3].context, traversal)
    /\ emitted[2].element.handle \notin Handles(traversal)

====
